---- MODULE Spec2Model ----
(***************************************************************************)
(* Model of src/main.py (auto-data-cleaner): the POST /clean handler       *)
(* clean_form, the normalizers it uses, the exclusion-set builder and the  *)
(* two external stores it touches (control sheet, master sheet).           *)
(*                                                                         *)
(* Text is a sequence of one-character strings.  A missing spreadsheet     *)
(* cell is the one-element sequence NaN, Python's None is the one-element  *)
(* sequence None, so that every cell is a sequence.                        *)
(***************************************************************************)
EXTENDS Integers, Sequences, FiniteSets, TLC

\* ------------------------------------------------------------------ bounds
\* Size of one run's input: rows of the uploaded batch plus non-blank
\* control cells plus missing control tabs.
MaxInput == 3

\* ------------------------------------------------------------ text helpers
NaN == <<"NaN">>
None == <<"None">>
Blank == <<>>

Digits == {"0", "1", "2", "3", "4", "5", "6", "7", "8", "9"}
Whitespace == {" ", "NBSP"}

isdigit(c) == c \in Digits

\* pd.isna / pd.notna on a scalar cell
isna(v) == v = NaN \/ v = None
notna(v) == ~isna(v)

\* str(v or ""): None and "" are falsy, NaN is a truthy float printed "nan"
str_or_empty(v) ==
  IF v = None THEN Blank
  ELSE IF v = NaN THEN <<"n", "a", "n">>
  ELSE v

lower_char(c) ==
  CASE c = "A" -> "a"
    [] c = "B" -> "b"
    [] c = "X" -> "x"
    [] OTHER -> c

lower(s) == [i \in 1..Len(s) |-> lower_char(s[i])]

RECURSIVE lstrip(_, _)
lstrip(s, chars) ==
  IF s # <<>> /\ Head(s) \in chars THEN lstrip(Tail(s), chars) ELSE s

RECURSIVE rstrip(_, _)
rstrip(s, chars) ==
  IF s # <<>> /\ s[Len(s)] \in chars
  THEN rstrip(SubSeq(s, 1, Len(s) - 1), chars)
  ELSE s

strip(s) == rstrip(lstrip(s, Whitespace), Whitespace)

startswith(d, cc) == Len(d) >= Len(cc) /\ SubSeq(d, 1, Len(cc)) = cc

replace_nbsp(s) == [i \in 1..Len(s) |-> IF s[i] = "NBSP" THEN " " ELSE s[i]]

\* --------------------------------------------------------------- utilities
normalize_ic(v) == SelectSeq(str_or_empty(v), isdigit)

normalize_email(v) == strip(lower(str_or_empty(v)))

normalize_phone(v) == lstrip(SelectSeq(str_or_empty(v), isdigit), {"0"})

format_phone(v, cc) ==
  LET d == normalize_phone(v)
  IN  IF d # <<>> /\ ~startswith(d, cc) THEN cc \o d ELSE d

clean_str(s) == lower(strip(replace_nbsp(str_or_empty(s))))

\* --------------------------------------------------------------- constants
EXCLUSION_TABS == <<"Active Titan/SPIRE", "Ex-Membership", "BGC", "New Intake">>

ic_cols == <<"IC", "ICNumber", "IC Number", "Identification Number">>
email_cols == <<"Email", "EmailAddress", "E-mail">>
phone_cols == <<"Mobile", "Phone", "PhoneNumber">>

tag_columns == <<"Active Titan/SPIRE", "New Intake", "BGC", "Ex-Membership">>

\* minimum number of digits of a control cell kept as an identifier
MinDigits == 6

\* the four values written to FinalStatus besides ""
\* (the source spells the duplicate ones with an en dash)
ControlList == "Excluded - Control List"
DuplicateIC == "Excluded - Duplicate IC"
DuplicateEmail == "Excluded - Duplicate Email"
DuplicatePhone == "Excluded - Duplicate Phone"

NoCol == "None"

Range(f) == {f[i] : i \in DOMAIN f}

\* ------------------------------------------------------------------ inputs
\* Cells an uploaded workbook may hold, per column.
ICCells == {NaN, <<"1", "2", "3", "4", "5", "6">>}
ICNumberCells == ICCells \cup {<<"1", "2", "3", "-", "4", "5", "6">>}
EmailCells == {NaN, <<"a", "@", "x">>}
PhoneCells == {NaN, <<"0", "1", "2", "3", "4", "5", "6">>}
OtherCells == {<<"x">>}

\* Header rows an uploaded workbook may have.
HeaderSets == {{"Name"}, {"IC", "Email", "Mobile"}, {"IC Number", "Phone"}}

CellsOf(h) ==
  IF h = "IC Number" THEN ICNumberCells
  ELSE IF h \in Range(ic_cols) THEN ICCells
  ELSE IF h \in Range(email_cols) THEN EmailCells
  ELSE IF h \in Range(phone_cols) THEN PhoneCells
  ELSE OtherCells

AllCells == ICNumberCells \cup EmailCells \cup PhoneCells \cup OtherCells

RowsOf(headers) ==
  {r \in [headers -> AllCells] : \A h \in headers : r[h] \in CellsOf(h)}

\* the data frames read_excel may return with at most n rows
Frames(headers, n) == UNION {[1..k -> RowsOf(headers)] : k \in 0..n}

\* Non-blank cells a control tab may hold.
CtrlCells == {<<"1", "2", "3", "4", "5", "6">>,
              <<"0", "1", "2", "3", "4", "5", "6">>,
              <<"a", "@", "x">>}

\* Grid positions <<row, column>> of a control tab that may be filled: one
\* inside rows 0..4 x columns 0..4, one inside rows 7..11 x columns 7..11,
\* one outside both.
GridPositions(tab) ==
  IF tab = "Active Titan/SPIRE"
  THEN {<<0, 0>>, <<7, 7>>, <<5, 5>>}
  ELSE {<<0, 0>>}

Slots == UNION {{<<t, p>> : p \in GridPositions(t)} : t \in Range(EXCLUSION_TABS)}

FilledSlots(store) == {x \in Slots : store[x] # Blank}

\* the membership tab lists identity numbers, the other tabs any of the cells
CtrlCellsOf(tab) ==
  IF tab = "Active Titan/SPIRE" THEN {<<"1", "2", "3", "4", "5", "6">>} ELSE CtrlCells

\* control sheets with at most n non-blank cells
Stores(n) ==
  {s \in [Slots -> CtrlCells \cup {Blank}] :
     /\ \A x \in Slots : s[x] \in CtrlCellsOf(x[1]) \cup {Blank}
     /\ Cardinality(FilledSlots(s)) <= n}

\* the sets of control tabs that may be unreadable during a run
MissingTabs == {{}, {"BGC"}}

\* get_all_values of one tab, as the set of <<row, column, cell>>
get_all_values(store, tab) ==
  {<<x[2][1], x[2][2], store[x]>> : x \in {y \in Slots : y[1] = tab}}

\* ------------------------------------------------------------------- state
VARIABLES
  pc,             \* position of the run inside clean_form
  control,        \* control sheet: cell of every slot
  missing,        \* control tabs whose worksheet() / get_all_values() raises
  sink,           \* master sheet: worksheet title -> contents
  country_code,   \* form field country_code
  df,             \* rows read from the upload
  columns,        \* df.columns
  ic_col, email_col, phone_col,
  exclude_ic, exclude_email, exclude_phone,
  IC_norm, Email_norm, Phone_norm,
  FinalStatus,    \* df["FinalStatus"]
  cleaned_df, excluded_df,
  result          \* what the request returned

vars == <<pc, control, missing, sink, country_code, df, columns,
          ic_col, email_col, phone_col,
          exclude_ic, exclude_email, exclude_phone,
          IC_norm, Email_norm, Phone_norm, FinalStatus,
          cleaned_df, excluded_df, result>>

\* worksheet contents
Sheet(state, header, rows) == [state |-> state, header |-> header, rows |-> rows]
AbsentSheet == Sheet("absent", {}, <<>>)
OldSheet == Sheet("old", {}, <<>>)
EmptySheet == Sheet("empty", {}, <<>>)

\* the master sheet before the run: "Cleaned" holds an earlier run's rows,
\* "Excluded" has not been created yet
InitialSink == [t \in {"Cleaned", "Excluded"} |->
                  IF t = "Cleaned" THEN OldSheet ELSE AbsentSheet]

NoResult == [status |-> "NONE", message |-> "", summary |-> <<>>]
ErrorResult(msg) == [status |-> "ERROR", message |-> msg, summary |-> <<>>]
OkResult(raw, cleaned, excluded) ==
  [status |-> "OK", message |-> "",
   summary |-> [totalRaw |-> raw, totalCleaned |-> cleaned, totalExcluded |-> excluded]]
\* an exception that leaves clean_form (the framework answers 500); message
\* records the statement that raised it
Uncaught(where) == [status |-> "EXCEPTION", message |-> where, summary |-> <<>>]

InputSize == Cardinality(FilledSlots(control)) + Cardinality(missing)

Init ==
  /\ pc = "load"
  /\ control \in Stores(MaxInput)
  /\ missing \in MissingTabs
  /\ Cardinality(FilledSlots(control)) + Cardinality(missing) <= MaxInput
  /\ sink = InitialSink
  /\ country_code = <<"6", "0">>
  /\ df = <<>>
  /\ columns = {}
  /\ ic_col = NoCol /\ email_col = NoCol /\ phone_col = NoCol
  /\ exclude_ic = {} /\ exclude_email = {} /\ exclude_phone = {}
  /\ IC_norm = <<>> /\ Email_norm = <<>> /\ Phone_norm = <<>>
  /\ FinalStatus = <<>>
  /\ cleaned_df = <<>> /\ excluded_df = <<>>
  /\ result = NoResult

\* ------------------------------------------------------- column detection
find_column(headers, candidates) ==
  LET hits == {i \in DOMAIN candidates : candidates[i] \in headers}
  IN  IF hits = {} THEN NoCol
      ELSE candidates[CHOOSE i \in hits : \A j \in hits : i <= j]

\* ---------------------------------------------------------- exclusion sets
\* the non-empty cells of the tabs that could be read, stripped
exclusion_cells(store, miss) ==
  {strip(x[3]) : x \in {y \in UNION {get_all_values(store, t) :
                                      t \in Range(EXCLUSION_TABS) \ miss} :
                        y[3] # Blank}}

build_exclusion_sets(store, miss) ==
  LET cells == exclusion_cells(store, miss)
      emails == {s \in cells : "@" \in Range(s)}
      numbers == {normalize_ic(s) : s \in cells \ emails}
      kept == {d \in numbers : Len(d) >= MinDigits}
  IN  [ic |-> kept, email |-> {lower(s) : s \in emails}, phone |-> kept]

\* ------------------------------------------------- duplicates & exclusions
Column(frame, col) == [i \in 1..Len(frame) |-> frame[i][col]]

\* Series.isin
isin(column, values) == [i \in 1..Len(column) |-> column[i] \in values]

\* variant: keep="last", the last occurrence is the one left unmarked
duplicated_keep_last(column) ==
  [i \in 1..Len(column) |-> \E j \in (i + 1)..Len(column) : column[j] = column[i]]

\* DataFrame.duplicated(subset), keep="first"
duplicated(column) ==
  [i \in 1..Len(column) |-> \E j \in 1..(i - 1) : column[j] = column[i]]

mask_and(a, b) == [i \in 1..Len(a) |-> a[i] /\ b[i]]

\* df.loc[mask, "FinalStatus"] = value
loc_assign(status, mask, value) ==
  [i \in 1..Len(status) |-> IF mask[i] THEN value ELSE status[i]]

\* lines 163-174; mask_ok is computed once, from the column of empty strings
classify(n, icc, emc, phc, icn, emn, phn, exic, exem, exph) ==
  LET fs0 == [i \in 1..n |-> ""]
      mask_ok == [i \in 1..n |-> fs0[i] = ""]
      fs1 == IF icc # NoCol
             THEN loc_assign(loc_assign(fs0, isin(icn, exic), ControlList),
                             mask_and(mask_ok, duplicated(icn)), DuplicateIC)
             ELSE fs0
      fs2 == IF emc # NoCol
             THEN loc_assign(loc_assign(fs1, isin(emn, exem), ControlList),
                             mask_and(mask_ok, duplicated(emn)), DuplicateEmail)
             ELSE fs1
      fs3 == IF phc # NoCol
             THEN loc_assign(loc_assign(fs2, isin(phn, exph), ControlList),
                             mask_and(mask_ok, duplicated(phn)), DuplicatePhone)
             ELSE fs2
  IN  fs3

\* ------------------------------------------------------------------ split
\* the rows whose status is in keep, with their index label and their cells
RECURSIVE select_rows(_, _, _, _)
select_rows(frame, status, keep, i) ==
  IF i > Len(frame) THEN <<>>
  ELSE (IF status[i] \in keep
        THEN <<[index |-> i, cells |-> frame[i], FinalStatus |-> status[i]]>>
        ELSE <<>>) \o select_rows(frame, status, keep, i + 1)

\* df[df["FinalStatus"] == ""]
split_cleaned(frame, status) == select_rows(frame, status, {""}, 1)

\* variant: only the control-list rows reach the Excluded frame
split_excluded_control_only(frame, status) ==
  select_rows(frame, status, {ControlList}, 1)

\* df[df["FinalStatus"] != ""]
split_excluded(frame, status) == select_rows(frame, status, Range(status) \ {""}, 1)

format_phone_column(frame, phc, cc) ==
  [i \in 1..Len(frame) |->
     IF phc # NoCol
     THEN [frame[i] EXCEPT !.cells = [@ EXCEPT ![phc] = format_phone(@, cc)]]
     ELSE frame[i]]

\* ----------------------------------------------------------------- tagging
NoRanges == [given |-> FALSE, rows |-> {}, cols |-> {}]
Ranges(rows, cols) == [given |-> TRUE, rows |-> rows, cols |-> cols]

\* the list is only ever tested with "in": modelled as the set of its items;
\* a tab that cannot be read gives []
load_control_list(store, miss, sheet_name, col_ranges) ==
  IF sheet_name \in miss THEN {}
  ELSE {clean_str(x[3]) :
          x \in {y \in get_all_values(store, sheet_name) :
                   /\ y[3] # Blank
                   /\ col_ranges.given =>
                        (y[1] \in col_ranges.rows /\ y[2] \in col_ranges.cols)}}

titan_list(store, miss) ==
  load_control_list(store, miss, "Active Titan/SPIRE", Ranges(0..4, 0..4))
spire_list(store, miss) ==
  load_control_list(store, miss, "Active Titan/SPIRE", Ranges(7..11, 7..11))
new_intake_list(store, miss) == load_control_list(store, miss, "New Intake", NoRanges)
bgc_list(store, miss) == load_control_list(store, miss, "BGC", NoRanges)
exmem_list(store, miss) == load_control_list(store, miss, "Ex-Membership", NoRanges)

tag_titan_spire(value, titan, spire) ==
  IF isna(value) THEN ""
  ELSE IF clean_str(value) \in titan THEN "Active Titan"
  ELSE IF clean_str(value) \in spire THEN "Active SPIRE"
  ELSE ""

tag_lookup(value, lookup_list, tag_name) ==
  IF isna(value) THEN ""
  ELSE IF clean_str(value) \in lookup_list THEN tag_name ELSE ""

\* the if / elif chain on col_name inside tag_row
tag_of(col_name, value, store, miss) ==
  CASE col_name = "Active Titan/SPIRE" ->
         tag_titan_spire(value, titan_list(store, miss), spire_list(store, miss))
    [] col_name = "New Intake" ->
         tag_lookup(value, new_intake_list(store, miss), "Closing")
    [] col_name = "BGC" ->
         tag_lookup(value, bgc_list(store, miss), "BGC")
    [] col_name = "Ex-Membership" ->
         tag_lookup(value, exmem_list(store, miss), "Ex-Membership")
    [] OTHER -> ""

\* variant: a row takes the tag of the first column that yields one and the
\* later columns stay empty
tag_row_first_column(row, icc, emc, phc, store, miss) ==
  LET tag(col_name) ==
        LET t1 == IF icc # NoCol /\ notna(row.cells[icc])
                  THEN tag_of(col_name, row.cells[icc], store, miss) ELSE ""
            t2 == IF t1 = "" /\ emc # NoCol /\ notna(row.cells[emc])
                  THEN tag_of(col_name, row.cells[emc], store, miss) ELSE t1
            t3 == IF t2 = "" /\ phc # NoCol /\ notna(row.cells[phc])
                  THEN tag_of(col_name, row.cells[phc], store, miss) ELSE t2
        IN  t3
      tagged == {i \in DOMAIN tag_columns : tag(tag_columns[i]) # ""}
      first == IF tagged = {} THEN 0 ELSE CHOOSE i \in tagged : \A j \in tagged : i <= j
  IN  [row EXCEPT !.tags =
         [col_name \in Range(tag_columns) |->
            IF first # 0 /\ tag_columns[first] = col_name THEN tag(col_name) ELSE ""]]

tag_row(row, icc, emc, phc, store, miss) ==
  [row EXCEPT !.tags =
     [col_name \in Range(tag_columns) |->
        LET t1 == IF icc # NoCol /\ notna(row.cells[icc])
                  THEN tag_of(col_name, row.cells[icc], store, miss) ELSE ""
            t2 == IF t1 = "" /\ emc # NoCol /\ notna(row.cells[emc])
                  THEN tag_of(col_name, row.cells[emc], store, miss) ELSE t1
            t3 == IF t2 = "" /\ phc # NoCol /\ notna(row.cells[phc])
                  THEN tag_of(col_name, row.cells[phc], store, miss) ELSE t2
        IN  t3]]

\* frame.where(pd.notnull(frame), None)
nan_to_none(cells) == [h \in DOMAIN cells |-> IF cells[h] = NaN THEN None ELSE cells[h]]

\* ----------------------------------------------------------------- actions
ReadExcel ==
  /\ pc = "load"
  /\ \E headers \in HeaderSets :
       \E frame \in Frames(headers, MaxInput - InputSize) :
         /\ columns' = headers
         /\ df' = frame
  /\ pc' = "resolve"
  /\ UNCHANGED <<control, missing, sink, country_code, ic_col, email_col, phone_col,
                 exclude_ic, exclude_email, exclude_phone,
                 IC_norm, Email_norm, Phone_norm, FinalStatus,
                 cleaned_df, excluded_df, result>>

Finish(r) ==
  /\ pc' = "done"
  /\ result' = r

ReadExcelFails ==
  /\ pc = "load"
  /\ Finish(ErrorResult("Failed to read Excel"))
  /\ UNCHANGED <<control, missing, sink, country_code, df, columns,
                 ic_col, email_col, phone_col,
                 exclude_ic, exclude_email, exclude_phone,
                 IC_norm, Email_norm, Phone_norm, FinalStatus,
                 cleaned_df, excluded_df>>

ResolveColumns ==
  /\ pc = "resolve"
  /\ ic_col' = find_column(columns, ic_cols)
  /\ email_col' = find_column(columns, email_cols)
  /\ phone_col' = find_column(columns, phone_cols)
  /\ IF ic_col' = NoCol /\ email_col' = NoCol /\ phone_col' = NoCol
     THEN Finish(ErrorResult("No IC, Email, or Phone column found"))
     ELSE pc' = "exclusion" /\ UNCHANGED result
  /\ UNCHANGED <<control, missing, sink, country_code, df, columns,
                 exclude_ic, exclude_email, exclude_phone,
                 IC_norm, Email_norm, Phone_norm, FinalStatus,
                 cleaned_df, excluded_df>>

BuildExclusionSets ==
  /\ pc = "exclusion"
  /\ LET sets == build_exclusion_sets(control, missing)
     IN  /\ exclude_ic' = sets.ic
         /\ exclude_email' = sets.email
         /\ exclude_phone' = sets.phone
  /\ pc' = "classify"
  /\ UNCHANGED <<control, missing, sink, country_code, df, columns,
                 ic_col, email_col, phone_col,
                 IC_norm, Email_norm, Phone_norm, FinalStatus,
                 cleaned_df, excluded_df, result>>

\* gc.open_by_key(CONTROL_SHEET_ID) raises inside build_exclusion_sets
BuildExclusionSetsFails ==
  /\ pc = "exclusion"
  /\ Finish(ErrorResult("Failed to access control sheet"))
  /\ UNCHANGED <<control, missing, sink, country_code, df, columns,
                 ic_col, email_col, phone_col,
                 exclude_ic, exclude_email, exclude_phone,
                 IC_norm, Email_norm, Phone_norm, FinalStatus,
                 cleaned_df, excluded_df>>

\* lines 154-182: normalize, classify, split, format the cleaned phones
Classify ==
  /\ pc = "classify"
  /\ IC_norm' = IF ic_col # NoCol
                THEN [i \in 1..Len(df) |-> normalize_ic(Column(df, ic_col)[i])] ELSE <<>>
  /\ Email_norm' = IF email_col # NoCol
                   THEN [i \in 1..Len(df) |-> normalize_email(Column(df, email_col)[i])]
                   ELSE <<>>
  /\ Phone_norm' = IF phone_col # NoCol
                   THEN [i \in 1..Len(df) |-> normalize_phone(Column(df, phone_col)[i])]
                   ELSE <<>>
  /\ FinalStatus' = classify(Len(df), ic_col, email_col, phone_col,
                             IC_norm', Email_norm', Phone_norm',
                             exclude_ic, exclude_email, exclude_phone)
  /\ cleaned_df' = format_phone_column(split_cleaned(df, FinalStatus'),
                                       phone_col, country_code)
  /\ excluded_df' = split_excluded(df, FinalStatus')
  /\ pc' = "open_control"
  /\ UNCHANGED <<control, missing, sink, country_code, df, columns,
                 ic_col, email_col, phone_col,
                 exclude_ic, exclude_email, exclude_phone, result>>

\* variant: the two result tables are emptied as soon as the batch is split
OpenControlClearsTables ==
  /\ pc = "open_control"
  /\ pc' = "tag"
  /\ sink' = [t \in {"Cleaned", "Excluded"} |-> EmptySheet]
  /\ UNCHANGED <<control, missing, country_code, df, columns,
                 ic_col, email_col, phone_col,
                 exclude_ic, exclude_email, exclude_phone,
                 IC_norm, Email_norm, Phone_norm, FinalStatus,
                 cleaned_df, excluded_df, result>>

\* line 188
OpenControl ==
  /\ pc = "open_control"
  /\ pc' = "tag"
  /\ UNCHANGED <<control, missing, sink, country_code, df, columns,
                 ic_col, email_col, phone_col,
                 exclude_ic, exclude_email, exclude_phone,
                 IC_norm, Email_norm, Phone_norm, FinalStatus,
                 cleaned_df, excluded_df, result>>

\* line 188 raises: no handler encloses it
OpenControlRaises ==
  /\ pc = "open_control"
  /\ Finish(Uncaught(pc))
  /\ UNCHANGED <<control, missing, sink, country_code, df, columns,
                 ic_col, email_col, phone_col,
                 exclude_ic, exclude_email, exclude_phone,
                 IC_norm, Email_norm, Phone_norm, FinalStatus,
                 cleaned_df, excluded_df>>

\* lines 210-283: load the control lists, tag the excluded rows, NaN -> None,
\* drop the working columns
Tag ==
  /\ pc = "tag"
  /\ excluded_df' =
       [i \in 1..Len(excluded_df) |->
          LET init == [index |-> excluded_df[i].index,
                       cells |-> excluded_df[i].cells,
                       FinalStatus |-> excluded_df[i].FinalStatus,
                       tags |-> [c \in Range(tag_columns) |-> ""]]
              tagged == tag_row(init, ic_col, email_col, phone_col, control, missing)
          IN  [tagged EXCEPT !.cells = nan_to_none(@)]]
  /\ cleaned_df' =
       [i \in 1..Len(cleaned_df) |->
          [index |-> cleaned_df[i].index, cells |-> nan_to_none(cleaned_df[i].cells)]]
  /\ pc' = "open_master"
  /\ UNCHANGED <<control, missing, sink, country_code, df, columns,
                 ic_col, email_col, phone_col,
                 exclude_ic, exclude_email, exclude_phone,
                 IC_norm, Email_norm, Phone_norm, FinalStatus, result>>

\* line 287
OpenMaster ==
  /\ pc = "open_master"
  /\ pc' = "get_Cleaned"
  /\ UNCHANGED <<control, missing, sink, country_code, df, columns,
                 ic_col, email_col, phone_col,
                 exclude_ic, exclude_email, exclude_phone,
                 IC_norm, Email_norm, Phone_norm, FinalStatus,
                 cleaned_df, excluded_df, result>>

\* get_or_create_ws(sh_master, title)
get_or_create_ws(sheets, title) ==
  IF sheets[title].state = "absent"
  THEN [sheets EXCEPT ![title] = EmptySheet]
  ELSE sheets

GetOrCreateWs(title, next) ==
  /\ pc = "get_" \o title
  /\ sink' = get_or_create_ws(sink, title)
  /\ pc' = next
  /\ UNCHANGED <<control, missing, country_code, df, columns,
                 ic_col, email_col, phone_col,
                 exclude_ic, exclude_email, exclude_phone,
                 IC_norm, Email_norm, Phone_norm, FinalStatus,
                 cleaned_df, excluded_df, result>>

\* ws.clear()
ClearWs(title, next) ==
  /\ pc = "clear_" \o title
  /\ sink' = [sink EXCEPT ![title] = EmptySheet]
  /\ pc' = next
  /\ UNCHANGED <<control, missing, country_code, df, columns,
                 ic_col, email_col, phone_col,
                 exclude_ic, exclude_email, exclude_phone,
                 IC_norm, Email_norm, Phone_norm, FinalStatus,
                 cleaned_df, excluded_df, result>>

excluded_columns == columns \cup {"FinalStatus"} \cup Range(tag_columns)

\* ws_cleaned.update(header + rows)
UpdateCleaned ==
  /\ pc = "update_Cleaned"
  /\ sink' = [sink EXCEPT !["Cleaned"] = Sheet("written", columns, cleaned_df)]
  /\ pc' = "update_Excluded"
  /\ UNCHANGED <<control, missing, country_code, df, columns,
                 ic_col, email_col, phone_col,
                 exclude_ic, exclude_email, exclude_phone,
                 IC_norm, Email_norm, Phone_norm, FinalStatus,
                 cleaned_df, excluded_df, result>>

\* ws_excluded.update(header + rows), then the return of lines 300-308
UpdateExcluded ==
  /\ pc = "update_Excluded"
  /\ sink' = [sink EXCEPT !["Excluded"] = Sheet("written", excluded_columns, excluded_df)]
  /\ Finish(OkResult(Len(df), Len(cleaned_df), Len(excluded_df)))
  /\ UNCHANGED <<control, missing, country_code, df, columns,
                 ic_col, email_col, phone_col,
                 exclude_ic, exclude_email, exclude_phone,
                 IC_norm, Email_norm, Phone_norm, FinalStatus,
                 cleaned_df, excluded_df>>

PublishingPcs == {"open_master", "get_Cleaned", "get_Excluded",
                  "clear_Cleaned", "clear_Excluded",
                  "update_Cleaned", "update_Excluded"}

\* lines 287-296 raise: no handler encloses them, the call had no effect
SinkRaises ==
  /\ pc \in PublishingPcs
  /\ Finish(Uncaught(pc))
  /\ UNCHANGED <<control, missing, sink, country_code, df, columns,
                 ic_col, email_col, phone_col,
                 exclude_ic, exclude_email, exclude_phone,
                 IC_norm, Email_norm, Phone_norm, FinalStatus,
                 cleaned_df, excluded_df>>

Next ==
  \/ ReadExcel
  \/ ReadExcelFails
  \/ ResolveColumns
  \/ BuildExclusionSets
  \/ BuildExclusionSetsFails
  \/ Classify
  \/ OpenControl
  \/ OpenControlRaises
  \/ Tag
  \/ OpenMaster
  \/ GetOrCreateWs("Cleaned", "get_Excluded")
  \/ GetOrCreateWs("Excluded", "clear_Cleaned")
  \/ ClearWs("Cleaned", "clear_Excluded")
  \/ ClearWs("Excluded", "update_Cleaned")
  \/ UpdateCleaned
  \/ UpdateExcluded
  \/ SinkRaises

Spec == Init /\ [][Next]_vars

TypeOK == pc \in PublishingPcs \cup {"load", "resolve", "exclusion", "classify",
                                     "open_control", "tag", "done"}

\* ------------------------------------------------------ vocabulary of the
\* properties: roles, canonical keys, positions of the run
Roles == {"ic", "email", "phone"}

ColOf(role) ==
  CASE role = "ic" -> ic_col [] role = "email" -> email_col [] OTHER -> phone_col

Resolved(role) == ColOf(role) # NoCol

\* canonical key of record i for a resolved role
KeyOf(role, i) ==
  CASE role = "ic" -> normalize_ic(df[i][ic_col])
    [] role = "email" -> normalize_email(df[i][email_col])
    [] OTHER -> normalize_phone(df[i][phone_col])

ExclusionSetOf(role) ==
  CASE role = "ic" -> exclude_ic [] role = "email" -> exclude_email [] OTHER -> exclude_phone

DuplicateOf(role) ==
  CASE role = "ic" -> DuplicateIC [] role = "email" -> DuplicateEmail [] OTHER -> DuplicatePhone

InControlList(role, i) == Resolved(role) /\ KeyOf(role, i) \in ExclusionSetOf(role)

SeenEarlier(role, i) ==
  Resolved(role) /\ \E j \in 1..(i - 1) : KeyOf(role, j) = KeyOf(role, i)

\* the raw cell of record i for a role is null, or empty once trimmed
MissingValue(role, i) ==
  Resolved(role) /\ (isna(df[i][ColOf(role)]) \/ strip(df[i][ColOf(role)]) = Blank)

\* the run has executed lines 154-182
Classified ==
  \/ pc \in {"open_control", "tag"} \cup PublishingPcs
  \/ pc = "done" /\ result.status = "OK"
  \/ pc = "done" /\ result.status = "EXCEPTION"

\* the run has executed lines 210-283
Tagged ==
  \/ pc \in PublishingPcs
  \/ pc = "done" /\ result.status = "OK"
  \/ pc = "done" /\ result.status = "EXCEPTION" /\ result.message \in PublishingPcs

Failed == pc = "done" /\ result.status \in {"ERROR", "EXCEPTION"}

InCleaned(i) == \E k \in 1..Len(cleaned_df) : cleaned_df[k].index = i

\* C1: once classified and split, a record is in Cleaned exactly when, for
\* every resolved role, its canonical key is neither in that role's
\* exclusion set nor the key of an earlier record of the batch.
C1_CleanedIffNoExclusion ==
  Classified =>
    \A i \in 1..Len(df) :
      InCleaned(i) <=>
        \A role \in Roles : ~InControlList(role, i) /\ ~SeenEarlier(role, i)

C1_Witness ==
  /\ Classified
  /\ \E i, j, k \in 1..Len(df) :
       /\ InCleaned(i)
       /\ ~InCleaned(j) /\ \E role \in Roles : InControlList(role, j)
       /\ ~InCleaned(k) /\ \E role \in Roles : SeenEarlier(role, k)

\* C2: the final status follows the priority order: a control-list match on
\* any role gives "Excluded - Control List" whatever duplicates the record
\* has; otherwise the status is the duplicate kind of the first role, in the
\* order identity, email, phone, whose key was seen earlier in the batch.
PriorityStatus(i) ==
  IF \E role \in Roles : InControlList(role, i) THEN ControlList
  ELSE IF SeenEarlier("ic", i) THEN DuplicateIC
  ELSE IF SeenEarlier("email", i) THEN DuplicateEmail
  ELSE IF SeenEarlier("phone", i) THEN DuplicatePhone
  ELSE ""

\* every resolved role of record i holds a value
AllPresent(i) == \A role \in Roles : ~MissingValue(role, i)

\* (stated for the records all of whose resolved roles hold a value; missing
\* values are the subject of C9)
C2_PriorityOrder ==
  Classified =>
    \A i \in 1..Len(df) : AllPresent(i) => FinalStatus[i] = PriorityStatus(i)

\* C3: duplicates are first-seen-wins per role: the first record holding a
\* key never gets that role's duplicate status, and every later record
\* holding it gets that role's duplicate status unless an exclusion of
\* higher priority (a control-list match, a duplicate of an earlier role)
\* applies to it.
\* (the second half is stated for the records all of whose resolved roles
\* hold a value; missing values are the subject of C9)
HigherPriorityExclusion(role, i) ==
  \/ \E r \in Roles : InControlList(r, i)
  \/ role \in {"email", "phone"} /\ SeenEarlier("ic", i)
  \/ role = "phone" /\ SeenEarlier("email", i)

C3_FirstSeenWins ==
  Classified =>
    \A role \in Roles : \A i \in 1..Len(df) :
      /\ (Resolved(role) /\ ~SeenEarlier(role, i))
           => FinalStatus[i] # DuplicateOf(role)
      /\ (AllPresent(i) /\ SeenEarlier(role, i) /\ ~HigherPriorityExclusion(role, i))
           => FinalStatus[i] = DuplicateOf(role)

\* C4: Cleaned and Excluded partition the batch: every input record is in
\* exactly one of the two tables, exactly once, every output row is an input
\* record, and a successful run reports totalRaw = totalCleaned +
\* totalExcluded with the sizes of the batch and of the written tables.
Occurrences(frame, i) == Cardinality({k \in 1..Len(frame) : frame[k].index = i})

C4_Partition ==
  /\ Classified =>
       /\ \A i \in 1..Len(df) :
            Occurrences(cleaned_df, i) + Occurrences(excluded_df, i) = 1
       /\ \A k \in 1..Len(cleaned_df) :
            /\ cleaned_df[k].index \in 1..Len(df)
            /\ \A h \in columns \ {phone_col} :
                 cleaned_df[k].cells[h] \in {df[cleaned_df[k].index][h], None}
       /\ \A k \in 1..Len(excluded_df) :
            /\ excluded_df[k].index \in 1..Len(df)
            /\ \A h \in columns :
                 excluded_df[k].cells[h] \in {df[excluded_df[k].index][h], None}
  /\ (pc = "done" /\ result.status = "OK") =>
       /\ result.summary.totalRaw = Len(df)
       /\ result.summary.totalRaw
            = result.summary.totalCleaned + result.summary.totalExcluded
       /\ result.summary.totalCleaned = Len(sink["Cleaned"].rows)
       /\ result.summary.totalExcluded = Len(sink["Excluded"].rows)

C4_Witness ==
  /\ pc = "done" /\ result.status = "OK"
  /\ result.summary.totalCleaned >= 1
  /\ result.summary.totalExcluded >= 1

\* the control cells of a tab as the run reads them
ReadableCells(tab) ==
  IF tab \in missing THEN {}
  ELSE {x[3] : x \in {y \in get_all_values(control, tab) : y[3] # Blank}}

\* the list a tag column is looked up in
ListOf(col_name) ==
  CASE col_name = "Active Titan/SPIRE" ->
         titan_list(control, missing) \cup spire_list(control, missing)
    [] col_name = "New Intake" -> new_intake_list(control, missing)
    [] col_name = "BGC" -> bgc_list(control, missing)
    [] OTHER -> exmem_list(control, missing)

NonEmptyTags(row) == {c \in Range(tag_columns) : row.tags[c] # ""}

CleanedCells(i) ==
  {clean_str(df[i][ColOf(role)]) :
     role \in {r \in Roles : Resolved(r) /\ notna(df[i][ColOf(r)])}}

TagValues(col_name) ==
  CASE col_name = "Active Titan/SPIRE" -> {"Active Titan", "Active SPIRE"}
    [] col_name = "New Intake" -> {"Closing"}
    [] col_name = "BGC" -> {"BGC"}
    [] OTHER -> {"Ex-Membership"}

C6_FailureLeavesSinkUntouched ==
  Failed => sink = InitialSink

\* the statements that act on a table of the master sheet
SinkOperationPcs == PublishingPcs \ {"open_master"}

\* C6 (amended): a run that fails before its first operation on a table of
\* the master sheet (unreadable input, no recognized column, control sheet
\* unreachable, master sheet unreachable) leaves both tables as they were; a
\* run that fails at get-or-create, clear or write may leave a table created,
\* cleared or written.
C6_EarlyFailureLeavesSinkUntouched ==
  (Failed /\ result.message \notin SinkOperationPcs) => sink = InitialSink

C6_Witness ==
  /\ Failed
  /\ result.status = "EXCEPTION"
  /\ result.message = "open_master"
  /\ Len(cleaned_df) >= 1
  /\ sink = InitialSink

\* C7: every failure ends the run with a structured {status: ERROR, message}
\* result: no run ends with an exception leaving clean_form.
C7_StructuredErrors ==
  pc = "done" => result.status \in {"OK", "ERROR"}

\* C8: a control cell without "@" that normalizes to at least MinDigits
\* digits excludes every record whose phone cell holds the same number.
C8_ControlNumbersExcludePhones ==
  Classified =>
    \A tab \in Range(EXCLUSION_TABS) : \A cell \in ReadableCells(tab) :
      ("@" \notin Range(cell) /\ Len(normalize_ic(cell)) >= MinDigits) =>
        \A i \in 1..Len(df) :
          (Resolved("phone") /\ normalize_ic(df[i][phone_col]) = normalize_ic(cell))
            => FinalStatus[i] # ""

\* C9: a missing value is not a present role: a record whose cell for a role
\* is null or blank is never a duplicate for that role nor a control-list
\* match on it, and stays admitted when the roles it does hold pass.
C9_MissingIsNotPresent ==
  Classified =>
    \A i \in 1..Len(df) :
      /\ \A role \in Roles :
           MissingValue(role, i) =>
             /\ FinalStatus[i] # DuplicateOf(role)
             /\ ~InControlList(role, i)
      /\ (\A role \in Roles :
            (Resolved(role) /\ ~MissingValue(role, i)) =>
              (~InControlList(role, i) /\ ~SeenEarlier(role, i)))
           => FinalStatus[i] = ""

\* C10: tagging looks up canonical keys: an excluded record whose identity
\* key equals the normalized form of a cell of the BGC, New Intake or
\* Ex-Membership table has that table's tag column populated, and two
\* excluded records with equal canonical keys in every role have equal tags.
C10_TagsByCanonicalKey ==
  Tagged =>
    /\ \A k \in 1..Len(excluded_df) :
         \A tab \in {"BGC", "New Intake", "Ex-Membership"} :
           (/\ Resolved("ic")
            /\ Len(KeyOf("ic", excluded_df[k].index)) >= MinDigits
            /\ \E cell \in ReadableCells(tab) :
                 normalize_ic(cell) = KeyOf("ic", excluded_df[k].index))
             => excluded_df[k].tags[tab] # ""
    /\ \A k1, k2 \in 1..Len(excluded_df) :
         (\A role \in Roles :
            Resolved(role) =>
              KeyOf(role, excluded_df[k1].index) = KeyOf(role, excluded_df[k2].index))
           => excluded_df[k1].tags = excluded_df[k2].tags

====
